---- MODULE Spec2Model ----
(***************************************************************************)
(* HtmlDocument (src/src/document/html/mod.rs): the lazily built,          *)
(* invalidatable page cache, the offset -> page lookup, location and       *)
(* fragment-link resolution.                                               *)
(*                                                                         *)
(* The layout pipeline (Engine::build_display_list), the parser and the    *)
(* engine's own setters are not part of that file.  The pipeline is a      *)
(* black box: each run of build_pages receives one of the page lists of    *)
(* Outputs from it.  The variable built remembers, for the cached page     *)
(* list, the inputs it was built from and what the pipeline returned.      *)
(***************************************************************************)
EXTENDS Integers, Sequences, FiniteSets, TLC

\* ---------------------------------------------------------------- bounds
MaxOffset == 2
MaxRawPages == 3
MaxRootOffset == 1
MaxRuns == 2

Offsets == 0..MaxOffset

\* ------------------------------------------------------- Option<T>, panic
None == <<>>
Some(x) == <<x>>
\* An out-of-range index into self.pages aborts the call.
Panic == <<-1>>

\* ------------------------------------------------------------ content tree
Node(offset, id, children) == [offset |-> offset, id |-> id, children |-> children]

\* Strings are sequences of characters.
Hash == "#"
Frag(id) == <<Hash>> \o id

\* The trees update() and the constructors can install.
Documents ==
    {Node(r, None, <<>>) : r \in 0..MaxRootOffset}
    \cup {Node(0, None, <<Node(MaxOffset, Some(<<"a">>), <<>>)>>)}

\* The URIs handed to resolve_location.
Uris == {<<"n">>, <<"n">> \o Frag(<<"a">>), <<"n">> \o Frag(<<"b">>)}

\* ------------------------------------------------------------ draw commands
\* The rectangle layout gives the command laid out for source offset o.
Rect(o) == [min |-> o, max |-> o + 1]

TextCommand(offset, uri) ==
    [kind |-> "Text", offset |-> offset, uri |-> uri, text |-> <<"w">>,
     rect |-> Rect(offset)]
ImageCommand(offset, uri) ==
    [kind |-> "Image", offset |-> offset, uri |-> uri, text |-> <<>>,
     rect |-> Rect(offset)]
Marker(offset) ==
    [kind |-> "Marker", offset |-> offset, uri |-> None, text |-> <<>>,
     rect |-> Rect(offset)]

\* DrawCommand::offset
offset_of(dc) == dc.offset

\* ------------------------------------------------ the pipeline's page lists
RECURSIVE SortedSeq(_)
SortedSeq(S) ==
    IF S = {} THEN <<>>
    ELSE LET m == CHOOSE x \in S : \A y \in S : x <= y
         IN <<m>> \o SortedSeq(S \ {m})

\* A page list of n pages: every offset is on one page or on none (0), later
\* offsets on the same or a later page; pages may be empty.
Assignments(n) ==
    {f \in [Offsets -> 0..n] :
        \A a, b \in Offsets : (a < b /\ f[a] > 0 /\ f[b] > 0) => f[a] <= f[b]}

PageOf(f, i) ==
    LET offs == SortedSeq({o \in Offsets : f[o] = i})
    IN [k \in 1..Len(offs) |-> TextCommand(offs[k], None)]

Outputs ==
    UNION {{[i \in 1..n |-> PageOf(f, i)] : f \in Assignments(n)} : n \in 0..MaxRawPages}

\* ------------------------------------------------------------ configuration
\* The velocity AlgoState::new starts with, which is also the disk radius.
VEL == 16

EngineConfigs == {"e0", "e1"}
VIEWER_STYLESHEET == "css/html.css"
USER_STYLESHEET == "css/html-user.css"
Paths == {VIEWER_STYLESHEET, USER_STYLESHEET}

VARIABLES
    content,            \* self.content: the content tree
    engine,             \* self.engine: the engine's configuration
    viewer_stylesheet,  \* self.viewer_stylesheet
    user_stylesheet,    \* self.user_stylesheet
    ignore_document_css,\* self.ignore_document_css
    pages,              \* self.pages: the cached page list
    built,              \* history: the build the cached list came from, if any
    last,               \* the last call: its name, its location argument, its result
    rect,               \* Draw::rect: the view's rectangle
    state,              \* Draw::state: position and velocity
    disks,              \* Draw::pixmap: the centres of the disks drawn
    tx,                 \* Draw::tx: the sending end of the channel
    channel,            \* the channel: how many () it holds
    ticker,             \* the spawned thread: where it stands in its loop
    hub,                \* the hub's queue of events
    stopped,            \* history: a () was sent on tx, or tx was dropped
    ticks_since_stop,   \* history: RenderTicks the thread sent after the stop
    wakes_since_stop    \* history: wake-ups of the thread after the stop

document_vars ==
    <<content, engine, viewer_stylesheet, user_stylesheet, ignore_document_css,
      pages, built, last>>

draw_vars ==
    <<rect, state, disks, tx, channel, ticker, hub, stopped, ticks_since_stop,
      wakes_since_stop>>

vars == <<document_vars, draw_vars>>

\* ------------------------------------------------------------------ helpers
NoLoc == [kind |-> "none", offset |-> 0, uri |-> <<>>]
Exact(o) == [kind |-> "Exact", offset |-> o, uri |-> <<>>]
Previous(o) == [kind |-> "Previous", offset |-> o, uri |-> <<>>]
Next_(o) == [kind |-> "Next", offset |-> o, uri |-> <<>>]
Uri(u) == [kind |-> "Uri", offset |-> 0, uri |-> u]
LocalUri(o, u) == [kind |-> "LocalUri", offset |-> o, uri |-> u]

\* A query: its name, its location and what it returned.
Call(op, loc, res) == [op |-> op, loc |-> loc, res |-> res, had |-> 0]
\* A query, and how many pages were cached when it began.
Query(op, loc, res, had) == [op |-> op, loc |-> loc, res |-> res, had |-> had]
\* A call that clears the cache, and how many pages were cached when it began.
Cleared(op, had) == [op |-> op, loc |-> NoLoc, res |-> None, had |-> had]

\* slice::first
first(page) == IF page = <<>> THEN None ELSE Some(page[1])

\* Vec::retain(|page| !page.is_empty())
NonEmpty(page) == page # <<>>
retain(pgs) == SelectSeq(pgs, NonEmpty)

\* ------------------------------------------------- variants with a seeded fault
\* build_pages without the fallback of lines 249-251
build_pages_no_fallback(c, d) == retain(d)

\* build_pages pushing the Marker page whether or not the list is empty
build_pages_always_marker(c, d) == retain(d) \o << <<Marker(c.offset)>> >>

\* build_pages putting the Marker at offset 0 instead of the root's offset
build_pages_marker_at_zero(c, d) ==
    LET kept == retain(d)
    IN IF kept = <<>> THEN << <<Marker(0)>> >> ELSE kept

\* --------------------------------------------------------------- build_pages
\* Lines 243-253: the pipeline has filled the list (d); empty pages are
\* dropped, and a list left empty gets one page holding a Marker at the root.
build_pages(c, d) ==
    LET kept == retain(d)
    IN IF kept = <<>> THEN << <<Marker(c.offset)>> >> ELSE kept

\* page_index without its build step
ensure_pages_never_builds(pgs, c, d) == pgs

\* Lines 122-124: build only when nothing is cached.
ensure_pages(pgs, c, d) == IF pgs = <<>> THEN build_pages(c, d) ELSE pgs

\* ---------------------------------------------------------------- page_index
\* pages[i].first().map(|dc| offset < dc.offset()) == Some(true), i counted from 0
starts_after(pgs, i, offset) ==
    /\ first(pgs[i + 1]) # None
    /\ offset < offset_of(first(pgs[i + 1])[1])

\* offset > dc.offset() in place of offset >= dc.offset()
starts_before(pgs, i, offset) ==
    /\ first(pgs[i + 1]) # None
    /\ offset > offset_of(first(pgs[i + 1])[1])

\* pages[i].first().map(|dc| offset >= dc.offset()) == Some(true), i counted from 0
starts_at_or_before(pgs, i, offset) ==
    /\ first(pgs[i + 1]) # None
    /\ offset >= offset_of(first(pgs[i + 1])[1])

\* page_index whose loop stops one page early (1..len-2 in place of 1..len-1)
page_index_result_short_loop(pgs, offset) ==
    IF Len(pgs) < 2 \/ starts_after(pgs, 1, offset) THEN Some(0)
    ELSE IF starts_at_or_before(pgs, Len(pgs) - 1, offset) THEN Some(Len(pgs) - 1)
    ELSE LET hits == {i \in 1..(Len(pgs) - 3) :
                         /\ starts_at_or_before(pgs, i, offset)
                         /\ starts_after(pgs, i + 1, offset)}
         IN IF hits = {} THEN None
            ELSE Some(CHOOSE i \in hits : \A j \in hits : i <= j)

\* Lines 125-137, on the list page_index holds after its build step.
page_index_result(pgs, offset) ==
    IF Len(pgs) < 2 \/ starts_after(pgs, 1, offset) THEN Some(0)
    ELSE IF starts_at_or_before(pgs, Len(pgs) - 1, offset) THEN Some(Len(pgs) - 1)
    ELSE LET hits == {i \in 1..(Len(pgs) - 2) :
                         /\ starts_at_or_before(pgs, i, offset)
                         /\ starts_after(pgs, i + 1, offset)}
         IN IF hits = {} THEN None
            ELSE Some(CHOOSE i \in hits : \A j \in hits : i <= j)

\* -------------------------------------------------- resolve_link, cache_uris
\* str::find('#'): the index (from 0) of the first '#'
find_hash(uri) ==
    LET at == {k \in 1..Len(uri) : uri[k] = Hash}
    IN IF at = {} THEN None ELSE Some((CHOOSE k \in at : \A j \in at : k <= j) - 1)

EmptyCache == [k \in {} |-> 0]

\* insert that keeps the value already stored under the key
insert_if_absent(cache, key, value) ==
    [k \in (DOMAIN cache) \cup {key} |-> IF k \in DOMAIN cache THEN cache[k] ELSE value]

\* FxHashMap::insert: a later insert under the same key replaces the value
insert(cache, key, value) ==
    [k \in (DOMAIN cache) \cup {key} |-> IF k = key THEN value ELSE cache[k]]

\* FxHashMap::get
get(cache, key) == IF key \in DOMAIN cache THEN Some(cache[key]) ELSE None

RECURSIVE cache_uris(_, _, _)
RECURSIVE cache_children(_, _, _, _)
\* Lines 148-157: the node itself, then its children in order.
cache_uris(node, name, cache) ==
    LET own == IF node.id # None
               THEN insert(cache, name \o Frag(node.id[1]), node.offset)
               ELSE cache
    IN cache_children(node.children, 1, name, own)

\* cache_uris that does not descend into the children
cache_children_skipped(children, k, name, cache) == cache

\* Lines 152-156: for child in children { self.cache_uris(child, name, cache) }
cache_children(children, k, name, cache) ==
    IF k > Len(children) THEN cache
    ELSE cache_children(children, k + 1, name, cache_uris(children[k], name, cache))

\* resolve_link that files the ids under one fixed document name
resolve_link_fixed_name(c, uri) ==
    LET frag_index == find_hash(uri)
    IN IF frag_index = None THEN None
       ELSE get(cache_uris(c, <<"n">>, EmptyCache), uri)

\* Lines 140-146, with the fresh cache of lines 323-324.
resolve_link(c, uri) ==
    LET frag_index == find_hash(uri)
    IN IF frag_index = None THEN None
       ELSE LET name == SubSeq(uri, 1, frag_index[1])
            IN get(cache_uris(c, name, EmptyCache), uri)

\* ----------------------------------------------------------- resolve_location
\* self.pages[i].first().map(DrawCommand::offset), i counted from 0
start_of(pgs, i) ==
    IF i < 0 \/ i >= Len(pgs) THEN Panic
    ELSE IF first(pgs[i + 1]) = None THEN None
    ELSE Some(offset_of(first(pgs[i + 1])[1]))

IsPageLoc(loc) == loc.kind \in {"Exact", "Previous", "Next"}

\* resolve_location whose Previous arm reads pages[page_index]
resolve_location_result_previous_stays(pgs, c, loc) ==
    IF IsPageLoc(loc)
    THEN LET pi == page_index_result(pgs, loc.offset)
         IN IF pi = None THEN None
            ELSE IF loc.kind = "Exact" THEN start_of(pgs, pi[1])
            ELSE IF loc.kind = "Previous"
                 THEN IF pi[1] > 0 THEN start_of(pgs, pi[1]) ELSE None
            ELSE IF Len(pgs) = 0 THEN Panic
            ELSE IF pi[1] < Len(pgs) - 1 THEN start_of(pgs, pi[1] + 1) ELSE None
    ELSE resolve_link(c, loc.uri)

\* resolve_location whose Next arm tests page_index + 1 < len - 1
resolve_location_result_next_stops_early(pgs, c, loc) ==
    IF IsPageLoc(loc)
    THEN LET pi == page_index_result(pgs, loc.offset)
         IN IF pi = None THEN None
            ELSE IF loc.kind = "Exact" THEN start_of(pgs, pi[1])
            ELSE IF loc.kind = "Previous"
                 THEN IF pi[1] > 0 THEN start_of(pgs, pi[1] - 1) ELSE None
            ELSE IF Len(pgs) = 0 THEN Panic
            ELSE IF pi[1] + 1 < Len(pgs) - 1 THEN start_of(pgs, pi[1] + 1) ELSE None
    ELSE resolve_link(c, loc.uri)

\* Lines 300-326, on the list left by page_index.
resolve_location_result(pgs, c, loc) ==
    IF IsPageLoc(loc)
    THEN LET pi == page_index_result(pgs, loc.offset)
         IN IF pi = None THEN None
            ELSE IF loc.kind = "Exact" THEN start_of(pgs, pi[1])
            ELSE IF loc.kind = "Previous"
                 THEN IF pi[1] > 0 THEN start_of(pgs, pi[1] - 1) ELSE None
            ELSE IF Len(pgs) = 0 THEN Panic
            ELSE IF pi[1] < Len(pgs) - 1 THEN start_of(pgs, pi[1] + 1) ELSE None
    ELSE resolve_link(c, loc.uri)

\* The page list after resolve_location: only the offset locations reach page_index.
resolve_location_pages(pgs, c, d, loc) ==
    IF IsPageLoc(loc) THEN ensure_pages(pgs, c, d) ELSE pgs

\* ------------------------------------------------------------------- actions
\* What build_display_list can hand back to a call that starts with the list pgs
\* cached: it runs only when nothing is cached.
NotRun == <<>>
PipelineRuns(pgs) == IF pgs = <<>> THEN Outputs ELSE {NotRun}

\* The pipeline runs since the cache was last cleared, this one included,
\* counted up to MaxRuns.
\* ------------------------------------------------------------ style sheets
\* A style sheet's text is the sequence of its rules' sources.
\* CssParser::new(text).parse(kind)
parse(text, kind) == [i \in 1..Len(text) |-> [rule |-> text[i], kind |-> kind]]

\* A path no file is at.
NoFile == "css/none.css"

\* fs::read_to_string on the host's files: the viewer's and the user's sheet
\* are there, nothing else is.
read_to_string(path) ==
    IF path = VIEWER_STYLESHEET THEN Some(<<"v">>)
    ELSE IF path = USER_STYLESHEET THEN Some(<<"u", "w">>)
    ELSE None

\* Normalize::normalize on a path given by its components
normalize(path) == SelectSeq(path, LAMBDA part : part # ".")

\* Lines 42-49, on the document's directory: a.css is a sheet of one rule,
\* b.css is not UTF-8, nothing else is there.
fetch(name) ==
    IF name = <<"a.css">> THEN Some([utf8 |-> TRUE, text |-> <<"a">>])
    ELSE IF name = <<"b.css">> THEN Some([utf8 |-> FALSE, text |-> <<>>])
    ELSE None

\* String::from_utf8
from_utf8(buf) == IF buf.utf8 THEN Some(buf.text) ELSE None

\* A child of the head element: its tag, three of its attributes, its text.
Element(tag, rel, href, type, text) ==
    [tag |-> tag, rel |-> rel, href |-> href, type |-> type, text |-> text]

\* self.content.find("head") and then head.children()
find_head(c) == IF "head" \in DOMAIN c THEN Some(c.head) ELSE None

\* Lines 189-205: the rules one child of head adds
document_css(child) ==
    IF child.tag = "link" /\ child.rel = Some("stylesheet")
    THEN IF child.href = None THEN <<>>
         ELSE LET buf == fetch(normalize(child.href[1]))
              IN IF buf = None THEN <<>>
                 ELSE LET text == from_utf8(buf[1])
                      IN IF text = None THEN <<>> ELSE parse(text[1], "Document")
    ELSE IF child.tag = "style" /\ child.type = Some("text/css")
    THEN IF child.text = None THEN <<>> ELSE parse(child.text[1], "Document")
    ELSE <<>>

RECURSIVE head_css(_)
\* Lines 188-206
head_css(children) ==
    IF children = <<>> THEN <<>>
    ELSE document_css(Head(children)) \o head_css(Tail(children))

\* Lines 172-209
stylesheet(viewer, user, ignore, c) ==
    LET v == read_to_string(viewer)
        u == read_to_string(user)
        head == find_head(c)
    IN (IF v = None THEN <<>> ELSE parse(v[1], "Viewer"))
       \o (IF u = None THEN <<>> ELSE parse(u[1], "User"))
       \o (IF ~ignore /\ head # None THEN head_css(head[1]) ELSE <<>>)

runs_after == IF built = None THEN 1
              ELSE IF built[1].runs < MaxRuns THEN built[1].runs + 1 ELSE MaxRuns

\* The inputs of a build and what the pipeline returned for them.
Build(d) ==
    [raw |-> d, content |-> content, engine |-> engine,
     viewer_stylesheet |-> viewer_stylesheet, user_stylesheet |-> user_stylesheet,
     stylesheet |-> stylesheet(viewer_stylesheet, user_stylesheet,
                               ignore_document_css, content),
     runs |-> runs_after]

built_after(pgs, d) == IF pgs = <<>> THEN Some(Build(d)) ELSE built

\* Lines 22-29 of src/view/draw/mod.rs
AlgoState_new == [pos |-> [x |-> 0, y |-> 0], vel |-> [x |-> VEL, y |-> VEL]]

\* No Draw view has been created.
NoDraw ==
    /\ rect = [width |-> 0, height |-> 0]
    /\ state = AlgoState_new
    /\ disks = {}
    /\ tx = "none"
    /\ channel = 0
    /\ ticker = "none"
    /\ hub = <<>>
    /\ stopped = FALSE
    /\ ticks_since_stop = 0
    /\ wakes_since_stop = 0

Init ==
    /\ content \in Documents
    /\ engine \in EngineConfigs
    /\ viewer_stylesheet = VIEWER_STYLESHEET
    /\ user_stylesheet = USER_STYLESHEET
    /\ ignore_document_css = FALSE
    /\ NoDraw
    /\ pages = <<>>
    /\ built = None
    /\ last = Call("new", NoLoc, None)

\* update without self.pages.clear()
update_keeps_pages(c) ==
    /\ content' = c
    /\ last' = Cleared("update", Len(pages))
    /\ UNCHANGED <<engine, viewer_stylesheet, user_stylesheet, pages, built, ignore_document_css>>
    /\ UNCHANGED draw_vars

\* Lines 93-98
update(c) ==
    /\ content' = c
    /\ pages' = <<>>
    /\ built' = None
    /\ last' = Cleared("update", Len(pages))
    /\ UNCHANGED <<engine, viewer_stylesheet, user_stylesheet, ignore_document_css>>
    /\ UNCHANGED draw_vars

\* Lines 100-103
set_margin(e) ==
    /\ engine' = e
    /\ pages' = <<>>
    /\ built' = None
    /\ last' = Cleared("set_margin", Len(pages))
    /\ UNCHANGED <<content, viewer_stylesheet, user_stylesheet, ignore_document_css>>
    /\ UNCHANGED draw_vars

\* set_font_size without self.pages.clear()
set_font_size_keeps_pages(e) ==
    /\ engine' = e
    /\ last' = Cleared("set_font_size", Len(pages))
    /\ UNCHANGED <<content, viewer_stylesheet, user_stylesheet, pages, built, ignore_document_css>>
    /\ UNCHANGED draw_vars

\* Lines 105-108
set_font_size(e) ==
    /\ engine' = e
    /\ pages' = <<>>
    /\ built' = None
    /\ last' = Cleared("set_font_size", Len(pages))
    /\ UNCHANGED <<content, viewer_stylesheet, user_stylesheet, ignore_document_css>>
    /\ UNCHANGED draw_vars

\* Lines 110-113
set_viewer_stylesheet(p) ==
    /\ viewer_stylesheet' = p
    /\ pages' = <<>>
    /\ built' = None
    /\ last' = Cleared("set_viewer_stylesheet", Len(pages))
    /\ UNCHANGED <<content, engine, user_stylesheet, ignore_document_css>>
    /\ UNCHANGED draw_vars

\* Lines 115-118
set_user_stylesheet(p) ==
    /\ user_stylesheet' = p
    /\ pages' = <<>>
    /\ built' = None
    /\ last' = Cleared("set_user_stylesheet", Len(pages))
    /\ UNCHANGED <<content, engine, viewer_stylesheet, ignore_document_css>>
    /\ UNCHANGED draw_vars

\* Lines 379-382
layout(e) ==
    /\ engine' = e
    /\ pages' = <<>>
    /\ built' = None
    /\ last' = Cleared("layout", Len(pages))
    /\ UNCHANGED <<content, viewer_stylesheet, user_stylesheet, ignore_document_css>>
    /\ UNCHANGED draw_vars

\* Lines 384-387
set_text_align(e) ==
    /\ engine' = e
    /\ pages' = <<>>
    /\ built' = None
    /\ last' = Cleared("set_text_align", Len(pages))
    /\ UNCHANGED <<content, viewer_stylesheet, user_stylesheet, ignore_document_css>>
    /\ UNCHANGED draw_vars

\* Lines 389-392
set_font_family(e) ==
    /\ engine' = e
    /\ pages' = <<>>
    /\ built' = None
    /\ last' = Cleared("set_font_family", Len(pages))
    /\ UNCHANGED <<content, viewer_stylesheet, user_stylesheet, ignore_document_css>>
    /\ UNCHANGED draw_vars

\* Lines 394-397
set_margin_width(e) ==
    /\ engine' = e
    /\ pages' = <<>>
    /\ built' = None
    /\ last' = Cleared("set_margin_width", Len(pages))
    /\ UNCHANGED <<content, viewer_stylesheet, user_stylesheet, ignore_document_css>>
    /\ UNCHANGED draw_vars

\* Lines 399-402
set_line_height(e) ==
    /\ engine' = e
    /\ pages' = <<>>
    /\ built' = None
    /\ last' = Cleared("set_line_height", Len(pages))
    /\ UNCHANGED <<content, viewer_stylesheet, user_stylesheet, ignore_document_css>>
    /\ UNCHANGED draw_vars

\* Lines 121-138
page_index(offset) ==
    \E d \in PipelineRuns(pages) :
        /\ pages' = ensure_pages(pages, content, d)
        /\ built' = built_after(pages, d)
        /\ last' = Query("page_index", Exact(offset), page_index_result(pages', offset),
                         Len(pages))
        /\ UNCHANGED <<content, engine, viewer_stylesheet, user_stylesheet, ignore_document_css>>
        /\ UNCHANGED draw_vars

\* Lines 297-327
resolve_location(loc) ==
    \E d \in (IF IsPageLoc(loc) THEN PipelineRuns(pages) ELSE {NotRun}) :
        /\ pages' = resolve_location_pages(pages, content, d, loc)
        /\ built' = IF IsPageLoc(loc) THEN built_after(pages, d) ELSE built
        /\ last' = Query("resolve_location", loc,
                         resolve_location_result(pages', content, loc), Len(pages))
        /\ UNCHANGED <<content, engine, viewer_stylesheet, user_stylesheet, ignore_document_css>>
        /\ UNCHANGED draw_vars

Locations ==
    {Exact(o) : o \in Offsets} \cup {Previous(o) : o \in Offsets}
    \cup {Next_(o) : o \in Offsets} \cup {Uri(u) : u \in Uris}
    \cup {LocalUri(o, u) : o \in {0}, u \in Uris}

Next ==
    \/ \E c \in Documents : update(c)
    \/ \E e \in EngineConfigs : set_margin(e)
    \/ \E e \in EngineConfigs : set_font_size(e)
    \/ \E p \in Paths : set_viewer_stylesheet(p)
    \/ \E p \in Paths : set_user_stylesheet(p)
    \/ \E e \in EngineConfigs : layout(e)
    \/ \E e \in EngineConfigs : set_text_align(e)
    \/ \E e \in EngineConfigs : set_font_family(e)
    \/ \E e \in EngineConfigs : set_margin_width(e)
    \/ \E e \in EngineConfigs : set_line_height(e)
    \/ \E o \in Offsets : page_index(o)
    \/ \E loc \in Locations : resolve_location(loc)

Spec == Init /\ [][Next]_vars

\* ------------------------------------------------- page-scoped extraction
\* The page list after `let offset = self.resolve_location(loc)?;
\* let page_index = self.page_index(offset)?;` (lines 330-331 and alike).
located_pages(pgs, c, d, loc) ==
    LET after == resolve_location_pages(pgs, c, d, loc)
    IN IF resolve_location_result(after, c, loc) \in {None, Panic} THEN after
       ELSE ensure_pages(after, c, d)

\* Whether those two lines ran build_pages.
located_built(pgs, c, d, loc) ==
    /\ pgs = <<>>
    /\ (IsPageLoc(loc) \/ resolve_location_result(pgs, c, loc) # None)

\* What a panic inside the two lines leaves in place of a page.
NoPage == [page |-> <<>>, offset |-> -1]

\* The two lines' outcome on the list they leave: None when either `?` returns
\* early, else the page and the resolved offset.
located(pgs, c, loc) ==
    LET offset == resolve_location_result(pgs, c, loc)
    IN IF offset = None THEN None
       ELSE IF offset = Panic THEN Some(NoPage)
       ELSE LET pi == page_index_result(pgs, offset[1])
            IN IF pi = None THEN None
               ELSE IF pi[1] >= Len(pgs) THEN Some(NoPage)
               ELSE Some([page |-> pgs[pi[1] + 1], offset |-> offset[1]])

\* Rectangle::into: the rectangle as a Boundary
Boundary(r) == [boundary |-> r]

\* TextLocation::Dynamic
Dynamic(offset) == [dynamic |-> offset]

BoundedText(text, r, location) ==
    [text |-> text, rect |-> Boundary(r), location |-> location]

IsText(dc) == dc.kind = "Text"
IsImage(dc) == dc.kind = "Image"

\* words whose records carry the anchor offset instead of the command's own
word_of_at_zero(dc) == BoundedText(dc.text, dc.rect, Dynamic(0))

\* Lines 336-340
word_of(dc) == BoundedText(dc.text, dc.rect, Dynamic(dc.offset))

\* Lines 357-358: Text or Image, if uri.is_some()
has_link(dc) == dc.kind \in {"Text", "Image"} /\ dc.uri # None

\* Lines 359-363
link_of(dc) == BoundedText(dc.uri[1], dc.rect, Dynamic(dc.offset))

\* Line 165
rect_of(dc) == dc.rect

\* Lines 333-344: filter_map over the page, collected
words_of(page) ==
    LET kept == SelectSeq(page, IsText)
    IN [i \in 1..Len(kept) |-> word_of(kept[i])]

\* Lines 355-367
links_of(page) ==
    LET kept == SelectSeq(page, has_link)
    IN [i \in 1..Len(kept) |-> link_of(kept[i])]

\* Lines 163-168
rects_of(page) ==
    LET kept == SelectSeq(page, IsImage)
    IN [i \in 1..Len(kept) |-> rect_of(kept[i])]

\* Engine::render_page
render_page(page) == [rendered |-> page]

\* Lines 333-344
words_result(pgs, c, loc) ==
    LET at == located(pgs, c, loc)
    IN IF at = None THEN None
       ELSE IF at[1] = NoPage THEN Panic
       ELSE Some(<<words_of(at[1].page), at[1].offset>>)

\* Lines 355-367
links_result(pgs, c, loc) ==
    LET at == located(pgs, c, loc)
    IN IF at = None THEN None
       ELSE IF at[1] = NoPage THEN Panic
       ELSE Some(<<links_of(at[1].page), at[1].offset>>)

\* images giving up on a page without images
images_result_none_without_images(pgs, c, loc) ==
    LET at == located(pgs, c, loc)
    IN IF at = None THEN None
       ELSE IF at[1] = NoPage THEN Panic
       ELSE IF rects_of(at[1].page) = <<>> THEN None
       ELSE Some(<<rects_of(at[1].page), at[1].offset>>)

\* Lines 163-168
images_result(pgs, c, loc) ==
    LET at == located(pgs, c, loc)
    IN IF at = None THEN None
       ELSE IF at[1] = NoPage THEN Panic
       ELSE Some(<<rects_of(at[1].page), at[1].offset>>)

\* Lines 373-376
pixmap_result(pgs, c, loc) ==
    LET at == located(pgs, c, loc)
    IN IF at = None THEN None
       ELSE IF at[1] = NoPage THEN Panic
       ELSE Some(<<render_page(at[1].page), at[1].offset>>)

\* The effect the four queries share: d is what the pipeline returns if it runs.
locate(loc, d) ==
    /\ pages' = located_pages(pages, content, d, loc)
    /\ built' = IF located_built(pages, content, d, loc) THEN Some(Build(d)) ELSE built
    /\ UNCHANGED <<content, engine, viewer_stylesheet, user_stylesheet, ignore_document_css>>
    /\ UNCHANGED draw_vars

\* Lines 329-345
words(loc, d) ==
    /\ locate(loc, d)
    /\ last' = Query("words", loc, words_result(pages', content, loc), Len(pages))

\* Lines 351-368
links(loc, d) ==
    /\ locate(loc, d)
    /\ last' = Query("links", loc, links_result(pages', content, loc), Len(pages))

\* Lines 159-169
images(loc, d) ==
    /\ locate(loc, d)
    /\ last' = Query("images", loc, images_result(pages', content, loc), Len(pages))

\* Lines 370-377
pixmap(loc, d) ==
    /\ locate(loc, d)
    /\ last' = Query("pixmap", loc, pixmap_result(pages', content, loc), Len(pages))

\* Page lists of one or two pages with every kind of command: a page of up to
\* MaxCommands commands of any kind, alone, before a plain page or after one.
MaxCommands == 2

LinkTargets == {None, Some(<<>>), Some(<<"u">>)}

CommandsAt(o) ==
    {TextCommand(o, u) : u \in LinkTargets}
    \cup {ImageCommand(o, u) : u \in LinkTargets}
    \cup {Marker(o)}

RECURSIVE PagesFrom(_, _)
\* The pages of exactly n commands at the offsets o, o+1, ...
PagesFrom(o, n) ==
    IF n = 0 THEN {<<>>}
    ELSE {<<dc>> \o rest : dc \in CommandsAt(o), rest \in PagesFrom(o + 1, n - 1)}

RichPages(o) == UNION {PagesFrom(o, n) : n \in 1..MaxCommands}

RichOutputs ==
    {<<p>> : p \in RichPages(0)}
    \cup {<< <<TextCommand(0, None)>>, p>> : p \in RichPages(1)}

RichRuns(pgs) == IF pgs = <<>> THEN RichOutputs ELSE {NotRun}

\* A document without ids and one whose child at offset 1 has the id "a".
PageDocuments ==
    {Node(0, None, <<>>), Node(0, None, <<Node(1, Some(<<"a">>), <<>>)>>)}

PageLocations ==
    {Exact(0), Exact(1), Previous(1), Next_(0), Uri(<<"n">>),
     Uri(<<"n">> \o Frag(<<"a">>)), Uri(<<"n">> \o Frag(<<"b">>))}

InitPage ==
    /\ content \in PageDocuments
    /\ engine = "e0"
    /\ viewer_stylesheet = VIEWER_STYLESHEET
    /\ user_stylesheet = USER_STYLESHEET
    /\ ignore_document_css = FALSE
    /\ NoDraw
    /\ pages = <<>>
    /\ built = None
    /\ last = Call("new", NoLoc, None)

NextPage ==
    \/ \E c \in PageDocuments : update(c)
    \/ \E loc \in PageLocations, d \in RichRuns(pages) : words(loc, d)
    \/ \E loc \in PageLocations, d \in RichRuns(pages) : links(loc, d)
    \/ \E loc \in PageLocations, d \in RichRuns(pages) : images(loc, d)
    \/ \E loc \in PageLocations, d \in RichRuns(pages) : pixmap(loc, d)

SpecPage == InitPage /\ [][NextPage]_vars

\* ------------------------------------------------------ style sheets alone
\* The host's setter of the suppression flag: it sets the flag and, as every
\* setter does, clears the cached pages.
set_ignore_document_css(ignore) ==
    /\ ignore_document_css' = ignore
    /\ pages' = <<>>
    /\ built' = None
    /\ last' = Cleared("set_ignore_document_css", Len(pages))
    /\ UNCHANGED <<content, engine, viewer_stylesheet, user_stylesheet>>
    /\ UNCHANGED draw_vars

LinkTo(href) == Element("link", Some("stylesheet"), Some(href), None, None)

HeadElements ==
    {LinkTo(<<"a.css">>), LinkTo(<<".", "a.css">>), LinkTo(<<"b.css">>),
     LinkTo(<<"c.css">>),
     Element("link", Some("icon"), Some(<<"a.css">>), None, None),
     Element("link", Some("stylesheet"), None, None, None),
     Element("style", None, None, Some("text/css"), Some(<<"s">>)),
     Element("style", None, None, None, Some(<<"t">>)),
     Element("style", None, None, Some("text/css"), None),
     Element("meta", None, None, None, None)}

\* Documents whose head has no, one or two children.
SheetDocuments ==
    {[offset |-> 0, id |-> None, children |-> <<>>, head |-> h] :
        h \in {<<>>} \cup {<<e>> : e \in HeadElements}
                     \cup {<<e, f>> : e, f \in HeadElements}}

\* What the pipeline returns is of no account here: one page of one word.
SheetRuns(pgs) == IF pgs = <<>> THEN {<< <<TextCommand(0, None)>> >>} ELSE {NotRun}

InitSheets ==
    /\ content \in SheetDocuments
    /\ engine = "e0"
    /\ viewer_stylesheet = VIEWER_STYLESHEET
    /\ user_stylesheet = USER_STYLESHEET
    /\ ignore_document_css = FALSE
    /\ NoDraw
    /\ pages = <<>>
    /\ built = None
    /\ last = Call("new", NoLoc, None)

NextSheets ==
    \/ \E c \in SheetDocuments : update(c)
    \/ \E p \in {VIEWER_STYLESHEET, NoFile} : set_viewer_stylesheet(p)
    \/ \E p \in {USER_STYLESHEET, NoFile} : set_user_stylesheet(p)
    \/ \E ignore \in BOOLEAN : set_ignore_document_css(ignore)
    \/ \E d \in SheetRuns(pages) : words(Exact(0), d)

SpecSheets == InitSheets /\ [][NextSheets]_vars

\* ------------------------------------------------------- fragment links alone
\* Trees of up to four nodes, offsets in source order, every node with or
\* without an id.
LinkIds == {None, Some(<<"a">>), Some(<<"b">>)}

LinkDocuments ==
    UNION {
        {Node(0, i0, <<>>),
         Node(0, i0, <<Node(1, i1, <<>>)>>),
         Node(0, i0, <<Node(1, i1, <<>>), Node(2, i2, <<>>)>>),
         Node(0, i0, <<Node(1, i1, <<Node(2, i2, <<>>)>>)>>),
         Node(0, i0, <<Node(1, i1, <<Node(2, i2, <<>>)>>), Node(3, i3, <<>>)>>)}
        : i0 \in {None}, i1 \in LinkIds, i2 \in LinkIds, i3 \in LinkIds}

LinkNames == {<<>>, <<"n">>, <<"m">>}
LinkTails == {<<>>, Frag(<<"a">>), Frag(<<"b">>), Frag(<<"c">>)}
LinkUris == {n \o t : n \in LinkNames, t \in LinkTails}

LinkLocations == {Uri(u) : u \in LinkUris} \cup {LocalUri(1, u) : u \in LinkUris}

InitLinks ==
    /\ content \in LinkDocuments
    /\ engine \in EngineConfigs
    /\ viewer_stylesheet = VIEWER_STYLESHEET
    /\ user_stylesheet = USER_STYLESHEET
    /\ ignore_document_css = FALSE
    /\ NoDraw
    /\ pages = <<>>
    /\ built = None
    /\ last = Call("new", NoLoc, None)

NextLinks ==
    \/ \E c \in LinkDocuments : update(c)
    \/ \E loc \in LinkLocations : resolve_location(loc)

SpecLinks == InitLinks /\ [][NextLinks]_vars

\* ------------------------------------------------------------ the Draw view
\* Source: src/view/draw/mod.rs.
MaxPending == 2
MaxSignals == 2
MaxHalfSteps == 2

\* The sides a view rectangle can have: multiples of half a step.
Sides == {(VEL * k) \div 2 : k \in 0..MaxHalfSteps}
Rects == {[width |-> w, height |-> h] : w, h \in Sides}

\* rect.intersection(fb_rect) of the disk's square at a position inside a view
\* rectangle placed at the origin: None when the view rectangle is empty.
intersects(r) == r.width > 0 /\ r.height > 0

\* draw_pix that turns around only after it has stepped outside
draw_pix_state_overshoots(st, r) ==
    LET nx == st.pos.x + st.vel.x
        ny == st.pos.y + st.vel.y
    IN [pos |-> [x |-> nx, y |-> ny],
        vel |-> [x |-> IF nx > r.width \/ nx < 0 THEN -st.vel.x ELSE st.vel.x,
                 y |-> IF ny > r.height \/ ny < 0 THEN -st.vel.y ELSE st.vel.y]]

\* Lines 89-105
draw_pix_state(st, r) ==
    LET nx == st.pos.x + st.vel.x
        ny == st.pos.y + st.vel.y
        out_x == nx > r.width \/ nx < 0
        out_y == ny > r.height \/ ny < 0
    IN [pos |-> [x |-> IF out_x THEN st.pos.x ELSE nx,
                 y |-> IF out_y THEN st.pos.y ELSE ny],
        vel |-> [x |-> IF out_x THEN -st.vel.x ELSE st.vel.x,
                 y |-> IF out_y THEN -st.vel.y ELSE st.vel.y]]

\* Lines 85-87
draw_pix_hub(h, r) == IF intersects(r) THEN Append(h, "RenderNoWaitRegion") ELSE h

\* Lines 79-106
draw_pix(h) ==
    /\ disks' = disks \cup {state.pos}
    /\ hub' = draw_pix_hub(h, rect)
    /\ state' = draw_pix_state(state, rect)

\* Lines 42-76
Draw_new(r) ==
    /\ tx = "none"
    /\ rect' = r
    /\ state' = AlgoState_new
    /\ disks' = {}
    /\ hub' = Append(hub, "Render")
    /\ tx' = "alive"
    /\ channel' = 0
    /\ ticker' = "sleep"
    /\ UNCHANGED <<stopped, ticks_since_stop, wakes_since_stop>>
    /\ UNCHANGED document_vars

\* try_recv that takes a dropped sender for an empty channel
try_recv_never_disconnected(messages, sender) ==
    IF messages > 0 THEN "Ok" ELSE "Empty"

\* Line 57: rx.try_recv()
try_recv(messages, sender) ==
    IF messages > 0 THEN "Ok"
    ELSE IF sender = "dropped" THEN "Disconnected"
    ELSE "Empty"

count(n) == IF stopped /\ n < MaxSignals THEN n + 1 ELSE n

\* Lines 56-61: the thread wakes up and looks at the channel
ticker_wake ==
    /\ ticker = "sleep"
    /\ ticker' = IF try_recv(channel, tx) = "Empty" THEN "send" ELSE "done"
    /\ channel' = IF try_recv(channel, tx) = "Ok" THEN channel - 1 ELSE channel
    /\ wakes_since_stop' = count(wakes_since_stop)
    /\ UNCHANGED <<rect, state, disks, tx, hub, stopped, ticks_since_stop>>
    /\ UNCHANGED document_vars

\* Line 61: hub2.send(Event::RenderTick)
ticker_send ==
    /\ ticker = "send"
    /\ Len(hub) < MaxPending
    /\ hub' = Append(hub, "RenderTick")
    /\ ticker' = "sleep"
    /\ ticks_since_stop' = count(ticks_since_stop)
    /\ UNCHANGED <<rect, state, disks, tx, channel, stopped, wakes_since_stop>>
    /\ UNCHANGED document_vars

\* Lines 111-115: a () sent after the thread has ended is lost (let _ =)
Finger_Down ==
    /\ tx = "alive"
    /\ Len(hub) < MaxPending
    /\ channel < MaxSignals
    /\ draw_pix(hub)
    /\ channel' = IF ticker = "done" THEN channel ELSE channel + 1
    /\ stopped' = TRUE
    /\ UNCHANGED <<rect, tx, ticker, ticks_since_stop, wakes_since_stop>>
    /\ UNCHANGED document_vars

\* Lines 116-119
Finger_Up ==
    /\ tx = "alive"
    /\ Len(hub) < MaxPending
    /\ hub' = Append(hub, "Back")
    /\ UNCHANGED <<rect, state, disks, tx, channel, ticker, stopped, ticks_since_stop,
                   wakes_since_stop>>
    /\ UNCHANGED document_vars

\* Lines 120-123: the host hands the view the RenderTick at the head of the hub
RenderTick ==
    /\ tx = "alive"
    /\ hub # <<>> /\ Head(hub) = "RenderTick"
    /\ draw_pix(Tail(hub))
    /\ UNCHANGED <<rect, tx, channel, ticker, stopped, ticks_since_stop, wakes_since_stop>>
    /\ UNCHANGED document_vars

\* Line 124 and the host's other views: any other event at the head of the
\* hub, or a RenderTick once the view is gone, is taken by the host.
other_event ==
    /\ hub # <<>>
    /\ Head(hub) # "RenderTick" \/ tx # "alive"
    /\ hub' = Tail(hub)
    /\ UNCHANGED <<rect, state, disks, tx, channel, ticker, stopped, ticks_since_stop,
                   wakes_since_stop>>
    /\ UNCHANGED document_vars

\* The Draw value is dropped, and its sender (line 37) with it.
drop_Draw ==
    /\ tx = "alive"
    /\ tx' = "dropped"
    /\ stopped' = TRUE
    /\ UNCHANGED <<rect, state, disks, channel, ticker, hub, ticks_since_stop,
                   wakes_since_stop>>
    /\ UNCHANGED document_vars

InitDraw ==
    /\ content = Node(0, None, <<>>)
    /\ engine = "e0"
    /\ viewer_stylesheet = VIEWER_STYLESHEET
    /\ user_stylesheet = USER_STYLESHEET
    /\ ignore_document_css = FALSE
    /\ pages = <<>>
    /\ built = None
    /\ last = Call("new", NoLoc, None)
    /\ NoDraw

NextDraw ==
    \/ \E r \in Rects : Draw_new(r)
    \/ ticker_wake
    \/ ticker_send
    \/ Finger_Down
    \/ Finger_Up
    \/ RenderTick
    \/ other_event
    \/ drop_Draw

SpecDraw == InitDraw /\ [][NextDraw]_vars

\* ------------------------------------------------------------ page geometry
\* The start offset of page i (from 0) of a list without empty pages.
start(pgs, i) == pgs[i + 1][1].offset

NoEmptyPage(pgs) == \A i \in 1..Len(pgs) : pgs[i] # <<>>

StrictlyIncreasing(pgs) ==
    \A i, j \in 0..(Len(pgs) - 1) : i < j => start(pgs, i) < start(pgs, j)

\* Page i (from 0) is the page of offset o: the first page takes what lies below
\* the second page's start, the last page what lies at or after its own start.
Contains(pgs, i, o) ==
    /\ (i = 0 \/ start(pgs, i) <= o)
    /\ (i = Len(pgs) - 1 \/ o < start(pgs, i + 1))

PageNumbers(pgs) == 0..(Len(pgs) - 1)

AfterResolve(kind) == last.op = "resolve_location" /\ last.loc.kind = kind

\* The calls that reach page_index whatever their argument.
AfterPageCall ==
    \/ last.op = "page_index"
    \/ last.op = "resolve_location" /\ IsPageLoc(last.loc)

Setters ==
    {"update", "set_margin", "set_font_size", "set_viewer_stylesheet",
     "set_user_stylesheet", "layout", "set_text_align", "set_font_family",
     "set_margin_width", "set_line_height"}

\* --------------------------------------------------------------------- claims

\* C1: after any operation that builds pages, whatever the pipeline returned
\* (no pages, only empty pages, anything else), the cached page list is
\* non-empty and holds no empty page.
C1_PagesNonEmptyAfterBuild ==
    /\ AfterPageCall => built # None
    /\ built # None => (pages # <<>> /\ NoEmptyPage(pages))

\* The pipeline returned pages, all of them empty, and page_index has returned.
C1_Witness ==
    /\ last.op = "page_index"
    /\ built # None
    /\ Len(built[1].raw) >= 2
    /\ retain(built[1].raw) = <<>>
    /\ pages # <<>>

\* C2: on a page list with strictly increasing starts, page_index(o) is the one
\* index i with (i first or start(i) <= o) and (i last or o < start(i+1)).
C2_PageIndexIsContainingPage ==
    (last.op = "page_index" /\ pages # <<>> /\ NoEmptyPage(pages)
        /\ StrictlyIncreasing(pages))
    => /\ last.res # None
       /\ last.res[1] \in PageNumbers(pages)
       /\ Contains(pages, last.res[1], last.loc.offset)
       /\ \A i \in PageNumbers(pages) :
              Contains(pages, i, last.loc.offset) => i = last.res[1]

\* page_index was asked for the start offset of a middle page and returned it.
C2_Witness ==
    /\ last.op = "page_index"
    /\ Len(pages) >= 3
    /\ last.res = Some(1)
    /\ last.loc.offset = start(pages, 1)

\* C3: page_index never returns None: it returns Some(i) with i < pages.len().
C3_PageIndexInRange ==
    last.op = "page_index"
    => (last.res # None /\ last.res # Panic /\ last.res[1] \in PageNumbers(pages))

\* The pipeline returned no page at all and page_index answered Some(0).
C3_Witness ==
    /\ last.op = "page_index"
    /\ built # None
    /\ built[1].raw = <<>>
    /\ last.res = Some(0)
    /\ Len(pages) = 1

\* C4: every configuration or content mutation leaves the cached page list empty.
C4_SettersClear == last.op \in Setters => pages = <<>>

\* A setter ran while pages were cached.
C4_Witness == last.op \in Setters /\ last.had > 0 /\ pages = <<>>

\* C5: the cached page list is empty, or it is what build_pages makes of the
\* pipeline's output for the current content tree and current configuration.
C5_CacheIsCurrent ==
    pages # <<>>
    => /\ built # None
       /\ built[1].content = content
       /\ built[1].engine = engine
       /\ built[1].viewer_stylesheet = viewer_stylesheet
       /\ built[1].user_stylesheet = user_stylesheet
       /\ pages = build_pages(content, built[1].raw)

\* A query answered after the viewer style sheet was changed.
C5_Witness ==
    /\ AfterPageCall
    /\ pages # <<>>
    /\ viewer_stylesheet # VIEWER_STYLESHEET

\* C6 as stated: after resolve_location(loc), whatever loc was, the cached page
\* list is non-empty.
C6_Original == last.op = "resolve_location" => pages # <<>>

\* C6 amended: resolve_location(Exact | Previous | Next) leaves a non-empty
\* cached page list; resolve_location(Uri | LocalUri) leaves the cached page
\* list as it found it.
C6_ResolveBuildsForOffsetsOnly ==
    [][last'.op = "resolve_location"
        => IF IsPageLoc(last'.loc) THEN pages' # <<>> ELSE pages' = pages]_vars

\* A URI was resolved and nothing is cached.
C6_Witness ==
    /\ AfterResolve("Uri")
    /\ last.res # None
    /\ pages = <<>>

\* C7: if resolve_location(Exact(o)) = Some(a), then a following
\* resolve_location(Exact(a)) = Some(a).
C7_ExactIdempotent ==
    [][(/\ AfterResolve("Exact")
        /\ last.res # None
        /\ last'.op = "resolve_location"
        /\ last'.loc = Exact(last.res[1]))
       => last'.res = last.res]_vars

\* Exact(o) snapped an offset inside a later page to that page's start.
C7_Witness ==
    /\ AfterResolve("Exact")
    /\ Len(pages) >= 2
    /\ last.res # None
    /\ last.res[1] < last.loc.offset
    /\ last.res[1] > start(pages, 0)

\* C8: if Next(start(i)) yields start(i+1), then a following
\* Previous(start(i+1)) yields start(i).
C8_PreviousInvertsNext ==
    [][(/\ AfterResolve("Next")
        /\ \E i \in PageNumbers(pages) :
              /\ i + 1 \in PageNumbers(pages)
              /\ last.loc.offset = start(pages, i)
              /\ last.res = Some(start(pages, i + 1))
        /\ last'.op = "resolve_location"
        /\ last'.loc = Previous(last.res[1]))
       => last'.res = Some(last.loc.offset)]_vars

\* Next(start(1)) yielded start(2).
C8_Witness ==
    /\ AfterResolve("Next")
    /\ Len(pages) >= 3
    /\ last.loc.offset = start(pages, 1)
    /\ last.res = Some(start(pages, 2))

\* C9: Previous(o) is the start of the page before the page of o, and None
\* exactly on the first page; Next(o) is the start of the page after it, and
\* None exactly on the last page.
C9_OnePageMoves ==
    (last.op = "resolve_location" /\ last.loc.kind \in {"Previous", "Next"})
    => LET i == CHOOSE k \in PageNumbers(pages) : Contains(pages, k, last.loc.offset)
       IN IF last.loc.kind = "Previous"
          THEN last.res = IF i = 0 THEN None ELSE Some(start(pages, i - 1))
          ELSE last.res = IF i = Len(pages) - 1 THEN None
                          ELSE Some(start(pages, i + 1))

\* Previous from the last of three pages yielded the middle page.
C9_Witness ==
    /\ AfterResolve("Previous")
    /\ Len(pages) = 3
    /\ Contains(pages, 2, last.loc.offset)
    /\ last.res = Some(start(pages, 1))

\* C10: in a built page list, start(i) < start(j) for all pages i < j.
C10_StartsStrictlyIncreasing ==
    built # None => (NoEmptyPage(pages) /\ StrictlyIncreasing(pages))

\* Several pages were built from a pipeline output that had an empty page.
C10_Witness ==
    /\ built # None
    /\ Len(pages) >= 2
    /\ retain(built[1].raw) # built[1].raw

\* ------------------------------------------------------------ tree geometry
RECURSIVE Preorder(_)
RECURSIVE PreorderAll(_, _)
\* The nodes of a tree, a node before its children, the children in order.
Preorder(node) == <<node>> \o PreorderAll(node.children, 1)
PreorderAll(children, k) ==
    IF k > Len(children) THEN <<>>
    ELSE Preorder(children[k]) \o PreorderAll(children, k + 1)

\* The positions in the pre-order of c of the nodes whose id is f.
Holders(c, f) ==
    LET nodes == Preorder(c)
    IN {k \in 1..Len(nodes) : nodes[k].id = Some(f)}

HasHash(u) == \E k \in 1..Len(u) : u[k] = Hash

\* What follows the first '#' of u.
Fragment(u) ==
    LET k == CHOOSE j \in 1..Len(u) : u[j] = Hash /\ \A i \in 1..(j - 1) : u[i] # Hash
    IN SubSeq(u, k + 1, Len(u))

AfterLink == last.op = "resolve_location" /\ last.loc.kind \in {"Uri", "LocalUri"}

\* C11: for "name#frag" resolve_link returns the offset of a node whose id is
\* frag, None when no node has that id, and None when the URI has no '#'.
C11_FragmentResolution ==
    AfterLink
    => IF ~HasHash(last.loc.uri) THEN last.res = None
       ELSE LET at == Holders(content, Fragment(last.loc.uri))
            IN IF at = {} THEN last.res = None
               ELSE \E k \in at : last.res = Some(Preorder(content)[k].offset)

\* A fragment was resolved to a node two levels below the root.
C11_Witness ==
    /\ AfterLink
    /\ last.res = Some(2)
    /\ Len(content.children) = 1
    /\ Holders(content, Fragment(last.loc.uri)) = {3}

\* C18: the result of resolve_link does not depend on the name before '#'.
C18_NameIsIgnored ==
    (AfterLink /\ HasHash(last.loc.uri))
    => \A n \in LinkNames :
           resolve_link(content, n \o Frag(Fragment(last.loc.uri))) = last.res

\* A link naming the document "m" was resolved against this document's ids.
C18_Witness ==
    /\ AfterLink
    /\ last.res # None
    /\ SubSeq(last.loc.uri, 1, 1) = <<"m">>

\* C19: when several nodes carry the id, resolve_link returns the offset of the
\* last of them in depth-first pre-order.
C19_LastDuplicateWins ==
    (AfterLink /\ HasHash(last.loc.uri))
    => LET at == Holders(content, Fragment(last.loc.uri))
       IN Cardinality(at) >= 2
          => last.res = Some(Preorder(content)[CHOOSE k \in at : \A j \in at : j <= k].offset)

\* The id sits on a grandchild and on the root's second child: the second
\* child, visited last, wins.
C19_Witness ==
    /\ AfterLink
    /\ HasHash(last.loc.uri)
    /\ Holders(content, Fragment(last.loc.uri)) = {3, 4}
    /\ last.res = Some(3)

\* C12: when the pipeline produces no non-empty page, the page list is exactly
\* one page holding exactly one Marker at the root node's offset, and
\* resolve_location(Exact(0)) returns the root node's offset.
C12_EmptyDocument ==
    (built # None /\ retain(built[1].raw) = <<>>)
    => /\ pages = << <<Marker(content.offset)>> >>
       /\ (AfterResolve("Exact") /\ last.loc.offset = 0)
              => last.res = Some(content.offset)

\* Exact(0) was resolved on an empty document whose root is not at offset 0.
C12_Witness ==
    /\ AfterResolve("Exact")
    /\ last.loc.offset = 0
    /\ built # None
    /\ retain(built[1].raw) = <<>>
    /\ content.offset > 0
    /\ last.res = Some(content.offset)

\* C17: between two clearing calls the pipeline runs at most once, however many
\* queries are made, also when the document lays out to no visible content.
C17_AtMostOneBuild == built # None => built[1].runs = 1

\* A query answered from the cached Marker page of an empty document.
C17_Witness ==
    /\ AfterPageCall
    /\ last.had > 0
    /\ built # None
    /\ retain(built[1].raw) = <<>>
    /\ built[1].runs = 1

\* ------------------------------------------------------------ page contents
Extractors == {"words", "links", "images", "pixmap"}

\* The page of offset o in the cached list.
ThePage(o) == pages[(CHOOSE i \in PageNumbers(pages) : Contains(pages, i, o)) + 1]

\* The positions of a page's Text commands, in page order.
TextPositions(page) == SortedSeq({k \in 1..Len(page) : page[k].kind = "Text"})

\* No page of the cached list is the page before (step -1) or after (step 1)
\* the page of offset o.
NoNeighbour(o, step) ==
    LET i == CHOOSE k \in PageNumbers(pages) : Contains(pages, k, o)
    IN (i + step) \notin PageNumbers(pages)

\* The cases in which a location names no offset.
Unresolvable(loc) ==
    CASE loc.kind = "Exact" -> FALSE
      [] loc.kind = "Previous" -> NoNeighbour(loc.offset, -1)
      [] loc.kind = "Next" -> NoNeighbour(loc.offset, 1)
      [] OTHER -> \/ ~HasHash(loc.uri)
                  \/ Holders(content, Fragment(loc.uri)) = {}

\* C13: words(loc) returns one record per Text command of the page containing
\* the resolved offset, none for Image or Marker commands, in page order, each
\* with the command's text and its own source offset as dynamic location; the
\* second component is the offset resolve_location(loc) returns.
C13_WordsOfThePage ==
    (last.op = "words" /\ last.res # None)
    => LET list == last.res[1][1]
           offset == last.res[1][2]
           page == ThePage(offset)
           at == TextPositions(page)
       IN /\ Some(offset) = resolve_location_result(pages, content, last.loc)
          /\ Len(list) = Len(at)
          /\ \A j \in 1..Len(at) :
                 /\ list[j].text = page[at[j]].text
                 /\ list[j].rect = Boundary(page[at[j]].rect)
                 /\ list[j].location = Dynamic(page[at[j]].offset)

\* A Next query answered from a second page that holds an image and then a
\* word: one record, located at the word and not at the anchor.
C13_Witness ==
    /\ last.op = "words" /\ last.loc.kind = "Next" /\ last.res # None
    /\ Len(pages) = 2 /\ Len(pages[2]) = 2
    /\ pages[2][1].kind = "Image" /\ pages[2][2].kind = "Text"
    /\ Len(last.res[1][1]) = 1
    /\ last.res[1][1][1].location = Dynamic(2)
    /\ last.res[1][2] = 1

IsLinked(dc) == dc.kind \in {"Text", "Image"} /\ dc.uri \notin {None, Some(<<>>)}

LinkedPositions(page) == SortedSeq({k \in 1..Len(page) : IsLinked(page[k])})

\* C14: links(loc) returns a record for exactly the Text or Image commands of
\* the page that carry a non-empty link URI, the record's text being the URI;
\* a command without link URI or with an empty one produces no record.
C14_LinksNonEmptyOnly ==
    (last.op = "links" /\ last.res # None)
    => LET list == last.res[1][1]
           page == ThePage(last.res[1][2])
           at == LinkedPositions(page)
       IN /\ Len(list) = Len(at)
          /\ \A j \in 1..Len(at) :
                 /\ list[j].text = page[at[j]].uri[1]
                 /\ list[j].location = Dynamic(page[at[j]].offset)

\* C15: words, links, images and pixmap return None exactly when the location
\* resolves to no offset (Previous on the first page, Next on the last page, a
\* URI without fragment or with an unknown one); otherwise they return the
\* whole pair of page content and offset.
C15_NoneIffUnresolved ==
    last.op \in Extractors
    => /\ last.res = None <=> Unresolvable(last.loc)
       /\ last.res # None => Len(last.res[1]) = 2

\* images of a page without images: the empty list, not None.
C15_Witness ==
    /\ last.op = "images" /\ last.loc.kind = "Previous" /\ last.res # None
    /\ last.res[1][1] = <<>>
    /\ built # None /\ last.had = 0

\* -------------------------------------------------------------- style sheets
\* What a child of head supplies: a linked sheet that can be fetched, the text
\* of a style element.
Supplied(child) ==
    IF /\ child.tag = "link" /\ child.rel = Some("stylesheet") /\ child.href # None
       /\ fetch(normalize(child.href[1])) # None
    THEN parse(fetch(normalize(child.href[1]))[1].text, "Document")
    ELSE IF child.tag = "style" /\ child.text # None
    THEN parse(child.text[1], "Document")
    ELSE <<>>

RECURSIVE SuppliedBy(_)
SuppliedBy(children) ==
    IF children = <<>> THEN <<>>
    ELSE Supplied(Head(children)) \o SuppliedBy(Tail(children))

SheetAt(path, kind) ==
    IF read_to_string(path) = None THEN <<>> ELSE parse(read_to_string(path)[1], kind)

\* C16: unless document sheets are suppressed, every fetchable
\* link[rel=stylesheet] child of head and every style element, whatever its
\* other attributes, adds its rules to a build's merged sheet: viewer rules,
\* then user rules, then document rules in head order; with suppression on, no
\* document rule.
C16_EveryDocumentSheetMerged ==
    built # None
    => built[1].stylesheet =
           SheetAt(viewer_stylesheet, "Viewer") \o SheetAt(user_stylesheet, "User")
           \o (IF ignore_document_css \/ find_head(content) = None THEN <<>>
               ELSE SuppliedBy(find_head(content)[1]))

\* ------------------------------------------------------------ the ticker
\* C20: once the stop signal has been sent or the sender dropped, the thread
\* sends at most one more RenderTick and is finished after its next wake-up;
\* as long as neither has happened the thread does not finish, and each of its
\* wake-ups is followed by the sending of one RenderTick.
C20_TickerStops ==
    /\ [](/\ ticks_since_stop <= 1
          /\ wakes_since_stop >= 1 => ticker = "done"
          /\ ~stopped => ticker # "done")
    /\ [][(ticker = "sleep" /\ ticker' # "sleep" /\ ~stopped) => ticker' = "send"]_vars
    /\ [][ticker = "send" /\ ticker' # "send"
              => ticker' = "sleep" /\ hub' = Append(hub, "RenderTick")]_vars

\* The signal came between the thread's look at the channel and its send: one
\* more RenderTick, and the thread ended at its next wake-up.
C20_Witness ==
    /\ stopped /\ tx = "alive"
    /\ ticks_since_stop = 1 /\ wakes_since_stop = 1 /\ ticker = "done"

\* -------------------------------------------------------------- the disk
\* One coordinate's move: p and v before, q and w after, side the rectangle's
\* extent along it. A move that would leave 0..side is not made and turns the
\* velocity around; any other move is made and keeps the velocity.
Moves(p, v, q, w, side) ==
    IF (p + v) \in 0..side THEN q = p + v /\ w = v
    ELSE q = p /\ w = -v

\* C21: from position (0,0) and velocity (16,16), after any number of draw_pix
\* steps the position lies within 0..width and 0..height of the view
\* rectangle and each velocity component is 16 or -16; a step whose next
\* coordinate would leave that range keeps the coordinate and negates that
\* velocity component.
C21_DiskStaysInside ==
    /\ [](/\ state.pos.x \in 0..rect.width
          /\ state.pos.y \in 0..rect.height
          /\ state.vel.x \in {VEL, -VEL}
          /\ state.vel.y \in {VEL, -VEL})
    /\ [][state' # state
              => /\ Moves(state.pos.x, state.vel.x, state'.pos.x, state'.vel.x, rect.width)
                 /\ Moves(state.pos.y, state.vel.y, state'.pos.y, state'.vel.y,
                          rect.height)]_vars

\* The disk at the far side of a rectangle one step wide and turned back, in
\* a rectangle less than a step high, where it never left the top.
C21_Witness ==
    /\ tx = "alive"
    /\ rect.width = VEL /\ rect.height > 0 /\ rect.height < VEL
    /\ state.pos = [x |-> VEL, y |-> 0]
    /\ state.vel.x = -VEL
    /\ Cardinality(disks) = 2

====
